---- MODULE Spec2Model ----
(***************************************************************************)
(* Model of terraform-module-resolve (main.go): the recursive module-graph *)
(* resolver Analyze/analyzeRecursive and the change-impact operations      *)
(* IsAffected, FilterRelatedFiles and CollectAllFiles.                     *)
(*                                                                         *)
(* A path string is a record [abs, segs]: abs says whether it starts with  *)
(* the separator, segs are its elements in order, uncleaned ("." and ".."  *)
(* are elements like any other until Clean resolves them).                 *)
(***************************************************************************)
EXTENDS Integers, Sequences, FiniteSets, TLC

\* ------------------------------------------------------------------ bounds
MaxCalls == 2        \* module calls declared in one directory
MaxBad == 1          \* directories whose configuration parses with diagnostics
MaxChanged == 1      \* changed paths handed to IsAffected / FilterRelatedFiles

\* ------------------------------------------------------------ path/filepath
Path(abs, segs) == [abs |-> abs, segs |-> segs]
AbsP(segs) == Path(TRUE, segs)
RelP(segs) == Path(FALSE, segs)
EmptyPath == RelP(<<>>)

Front(s) == SubSeq(s, 1, Len(s) - 1)

RECURSIVE CleanSegs(_, _, _)
CleanSegs(abs, acc, rest) ==
    IF rest = <<>> THEN acc
    ELSE LET s == Head(rest)
             t == Tail(rest)
         IN  IF s = "." \/ s = "" THEN CleanSegs(abs, acc, t)
             ELSE IF s = ".."
                  THEN IF acc # <<>> /\ acc[Len(acc)] # ".."
                       THEN CleanSegs(abs, Front(acc), t)
                       ELSE IF abs THEN CleanSegs(abs, acc, t)
                            ELSE CleanSegs(abs, Append(acc, ".."), t)
                  ELSE CleanSegs(abs, Append(acc, s), t)

Clean(p) == Path(p.abs, CleanSegs(p.abs, <<>>, p.segs))

IsAbs(p) == p.abs

Join(a, b) ==
    IF a = EmptyPath THEN Clean(b)
    ELSE Clean(Path(a.abs, a.segs \o b.segs))

\* filepath.Abs: wdOK is the outcome of the os.Getwd it makes for a relative path.
Abs(p, wd, wdOK) ==
    IF IsAbs(p) THEN [ok |-> TRUE, path |-> Clean(p)]
    ELSE IF wdOK THEN [ok |-> TRUE, path |-> Join(wd, p)]
         ELSE [ok |-> FALSE, path |-> EmptyPath]

RECURSIVE CommonLen(_, _)
CommonLen(a, b) ==
    IF a = <<>> \/ b = <<>> THEN 0
    ELSE IF Head(a) = Head(b) THEN 1 + CommonLen(Tail(a), Tail(b))
         ELSE 0

\* filepath.Rel(basepath, targpath): ok = FALSE is its error; segs = <<>> is ".".
Rel(basepath, targpath) ==
    LET base == Clean(basepath)
        targ == Clean(targpath)
        n    == CommonLen(base.segs, targ.segs)
        bRest == SubSeq(base.segs, n + 1, Len(base.segs))
        tRest == SubSeq(targ.segs, n + 1, Len(targ.segs))
    IN  IF targ = base THEN [ok |-> TRUE, segs |-> <<>>]
        ELSE IF base.abs # targ.abs THEN [ok |-> FALSE, segs |-> <<>>]
        ELSE IF bRest # <<>> /\ Head(bRest) = ".." THEN [ok |-> FALSE, segs |-> <<>>]
        ELSE [ok |-> TRUE, segs |-> [i \in 1..Len(bRest) |-> ".."] \o tRest]

\* isInDirectory without the `rel != ".."` test.
isInDirectory_NoDotDotTest(filePath, dirPath) ==
    LET r == Rel(dirPath, filePath)
    IN  IF ~r.ok THEN FALSE
        ELSE ~(Len(r.segs) >= 2 /\ r.segs[1] = "..")

isInDirectory(filePath, dirPath) ==
    LET r == Rel(dirPath, filePath)
    IN  IF ~r.ok THEN FALSE
        ELSE /\ ~(Len(r.segs) >= 2 /\ r.segs[1] = "..")
             /\ r.segs # <<"..">>

isLocalPath(source) ==
    /\ ~source.abs
    /\ Len(source.segs) >= 2
    /\ source.segs[1] \in {".", ".."}

\* --------------------------------------------------------------- filesystem
\* The directories that exist. Any other path is missing: listing it fails.
DirA == AbsP(<<"a">>)
DirB == AbsP(<<"b">>)
DirS == AbsP(<<"a", "s">>)
DirX == AbsP(<<"a", "x">>)
Dirs == {DirA, DirB, DirS}

Entry(name, ext, isDir) == [name |-> name, ext |-> ext, isDir |-> isDir]

\* os.ReadDir's entries of each directory, in listing order.
Entries(d) ==
    IF d = DirA THEN << Entry("main.tf", "tf", FALSE), Entry("readme.md", "md", FALSE),
                        Entry("s", "", TRUE), Entry("variables.tf", "tf", FALSE) >>
    ELSE IF d = DirB THEN << Entry("main.tf", "tf", FALSE),
                             Entry("outputs.tf.json", "tf.json", FALSE) >>
    ELSE IF d = DirS THEN << Entry("main.tf", "tf", FALSE) >>
    ELSE << >>

ModuleCall(name, source, version) ==
    [name |-> name, source |-> source, version |-> version]

EksSource == RelP(<<"terraform-aws-modules", "eks", "aws">>)
GitSource == RelP(<<"git::https:", "", "example.com", "net.git">>)

\* The module calls a directory's configuration may declare, in declaration order.
Candidates(d) ==
    IF d = DirA THEN << ModuleCall("b", RelP(<<"..", "b">>), ""),
                        ModuleCall("s", RelP(<<".", "s">>), ""),
                        ModuleCall("x", RelP(<<".", "x">>), ""),
                        ModuleCall("eks", EksSource, "~> 19.0") >>
    ELSE IF d = DirB THEN << ModuleCall("a", RelP(<<"..", "a">>), ""),
                             ModuleCall("s2", RelP(<<"..", "a", "s">>), ""),
                             ModuleCall("eks", EksSource, "") >>
    ELSE << ModuleCall("up", RelP(<<"..", "..", "a">>), ""),
            ModuleCall("net", GitSource, "1.0") >>

\* The subsequences of s with at most n elements.
RECURSIVE SubSeqs(_, _)
SubSeqs(s, n) ==
    IF s = <<>> \/ n = 0 THEN {<<>>}
    ELSE SubSeqs(Tail(s), n) \cup {<<Head(s)>> \o t : t \in SubSeqs(Tail(s), n - 1)}

\* A file system: what each existing directory's configuration declares and
\* whether the configuration parser reports diagnostics for it.
FileSystems ==
    { [d \in Dirs |-> [calls |-> IF d = DirA THEN ca ELSE IF d = DirB THEN cb ELSE cs,
                       parseOK |-> d \notin bad]] :
        ca \in SubSeqs(Candidates(DirA), MaxCalls),
        cb \in SubSeqs(Candidates(DirB), MaxCalls),
        cs \in SubSeqs(Candidates(DirS), MaxCalls),
        bad \in {b \in SUBSET Dirs : Cardinality(b) <= MaxBad} }

\* The working directory of the process.
Cwd == DirA

\* The directory argument of Analyze.
RootArgs == {DirA, DirB, RelP(<<"s">>), DirX}

\* The changed paths read from stdin.
ChangedCands ==
    { AbsP(<<"a", "s", "main.tf">>), AbsP(<<"b", "main.tf">>),
      AbsP(<<"some", "other", "path", "file.tf">>), RelP(<<"main.tf">>) }

RECURSIVE SeqsUpTo(_, _)
SeqsUpTo(S, n) ==
    IF n = 0 THEN {<<>>}
    ELSE SeqsUpTo(S, n - 1) \cup
         {Append(s, x) : s \in {t \in SeqsUpTo(S, n - 1) : Len(t) = n - 1}, x \in S}

ChangedLists == SeqsUpTo(ChangedCands, MaxChanged)

\* -------------------------------------------------------------------- state
VARIABLES
    fs,             \* the directory tree (never changes during a run)
    arg,            \* Analyze's dir argument
    pc,             \* "start", "call", "loop", "ret", "done" (Analyze returned), "exit"
    visited,        \* Analyze's visited map, as the set of its keys
    rootModule,     \* Analyze's rootModule
    localModules,   \* Analyze's localModules
    remoteModules,  \* Analyze's remoteModules
    stack,          \* the active analyzeRecursive frames, innermost last
    pending,        \* the arguments of the analyzeRecursive call being entered
    retErr,         \* whether the analyzeRecursive call that just returned failed
    stderr,         \* the warnings written to os.Stderr
    err,            \* Analyze's error result ("" is nil)
    output,         \* Analyze's *Output result (NoOutput is nil)
    op              \* the last change-impact operation and its result

vars == << fs, arg, pc, visited, rootModule, localModules, remoteModules,
           stack, pending, retErr, stderr, err, output, op >>

NoOutput == [nil |-> TRUE]
NoCall == [nil |-> TRUE]
NoOp == [kind |-> "none"]

ModuleDetail(name, source, resolvedPath, files) ==
    [Name |-> name, Source |-> source, ResolvedPath |-> resolvedPath, Files |-> files]

RemoteModule(name, source, version, calledFrom) ==
    [Name |-> name, Source |-> source, Version |-> version, CalledFrom |-> calledFrom]

\* os.ReadDir succeeds on the directories that exist.
ReadDirOK(dir) == dir \in Dirs

RECURSIVE TerraformFilesOf(_, _)
TerraformFilesOf(dir, entries) ==
    IF entries = <<>> THEN <<>>
    ELSE LET e == Head(entries)
             rest == TerraformFilesOf(dir, Tail(entries))
         IN  IF e.isDir THEN rest
             ELSE IF e.ext = "tf" \/ e.ext = "tf.json"
                  THEN <<Join(dir, RelP(<<e.name>>))>> \o rest
                  ELSE rest

listTerraformFiles(dir) ==
    IF ~ReadDirOK(dir) THEN [ok |-> FALSE, files |-> <<>>]
    ELSE [ok |-> TRUE, files |-> TerraformFilesOf(dir, Entries(dir))]

\* The orders in which a range over the map module.ModuleCalls may yield calls.
RangeOrders(calls) ==
    { [i \in 1..Len(calls) |-> calls[f[i]]] : f \in Permutations(1..Len(calls)) }

Init ==
    /\ fs \in FileSystems
    /\ arg \in RootArgs
    /\ pc = "start"
    /\ visited = {}
    /\ rootModule = ModuleDetail("", EmptyPath, EmptyPath, <<>>)
    /\ localModules = <<>>
    /\ remoteModules = <<>>
    /\ stack = <<>>
    /\ pending = NoCall
    /\ retErr = FALSE
    /\ stderr = <<>>
    /\ err = ""
    /\ output = NoOutput
    /\ op = NoOp

\* Analyze, up to its call of analyzeRecursive.
Analyze ==
    /\ pc = "start"
    /\ \E wdOK \in (IF IsAbs(arg) THEN {TRUE} ELSE BOOLEAN) :
         LET a == Abs(arg, Cwd, wdOK)
             l == listTerraformFiles(a.path)
         IN  IF ~a.ok
             THEN /\ err' = "abs"
                  /\ pc' = "done"
                  /\ UNCHANGED << rootModule, pending >>
             ELSE IF ~l.ok
             THEN /\ err' = "list"
                  /\ pc' = "done"
                  /\ UNCHANGED << rootModule, pending >>
             ELSE /\ rootModule' = ModuleDetail("", EmptyPath, a.path, l.files)
                  /\ pending' = [dir |-> a.path, calledFrom |-> ""]
                  /\ pc' = "call"
                  /\ UNCHANGED err
    /\ UNCHANGED << fs, arg, visited, localModules, remoteModules, stack, retErr,
                    stderr, output, op >>

\* Enter without the early return for a visited directory.
Enter_NoVisitedCheck ==
    /\ pc = "call"
    /\ LET absDir == Abs(pending.dir, Cwd, TRUE).path
       IN  /\ visited' = visited \cup {absDir}
           /\ IF ~fs[absDir].parseOK
              THEN /\ retErr' = TRUE
                   /\ pc' = "ret"
                   /\ UNCHANGED stack
              ELSE /\ \E order \in RangeOrders(fs[absDir].calls) :
                        stack' = Append(stack, [dir |-> absDir,
                                                calledFrom |-> pending.calledFrom,
                                                order |-> order, i |-> 1])
                   /\ pc' = "loop"
                   /\ UNCHANGED retErr
    /\ pending' = NoCall
    /\ UNCHANGED << fs, arg, rootModule, localModules, remoteModules, stderr, err,
                    output, op >>

\* Enter that marks a directory visited only once its parse succeeded.
Enter_MarkAfterParse ==
    /\ pc = "call"
    /\ LET absDir == Abs(pending.dir, Cwd, TRUE).path
       IN  IF absDir \in visited
           THEN /\ retErr' = FALSE
                /\ pc' = "ret"
                /\ UNCHANGED << visited, stack >>
           ELSE IF ~fs[absDir].parseOK
                THEN /\ retErr' = TRUE
                     /\ pc' = "ret"
                     /\ UNCHANGED << visited, stack >>
                ELSE /\ visited' = visited \cup {absDir}
                     /\ \E order \in RangeOrders(fs[absDir].calls) :
                          stack' = Append(stack, [dir |-> absDir,
                                                  calledFrom |-> pending.calledFrom,
                                                  order |-> order, i |-> 1])
                     /\ pc' = "loop"
                     /\ UNCHANGED retErr
    /\ pending' = NoCall
    /\ UNCHANGED << fs, arg, rootModule, localModules, remoteModules, stderr, err,
                    output, op >>

\* analyzeRecursive, from its entry to the start of its loop.
Enter ==
    /\ pc = "call"
    /\ LET absDir == Abs(pending.dir, Cwd, TRUE).path
       IN  IF absDir \in visited
           THEN /\ retErr' = FALSE
                /\ pc' = "ret"
                /\ UNCHANGED << visited, stack >>
           ELSE /\ visited' = visited \cup {absDir}
                /\ IF ~fs[absDir].parseOK
                   THEN /\ retErr' = TRUE
                        /\ pc' = "ret"
                        /\ UNCHANGED stack
                   ELSE /\ \E order \in RangeOrders(fs[absDir].calls) :
                             stack' = Append(stack, [dir |-> absDir,
                                                     calledFrom |-> pending.calledFrom,
                                                     order |-> order, i |-> 1])
                        /\ pc' = "loop"
                        /\ UNCHANGED retErr
    /\ pending' = NoCall
    /\ UNCHANGED << fs, arg, rootModule, localModules, remoteModules, stderr, err,
                    output, op >>

Top == stack[Len(stack)]
Advance == [stack EXCEPT ![Len(stack)].i = @ + 1]

\* LoopLocal that skips a call whose directory is already visited.
LoopLocal_SkipVisited ==
    /\ pc = "loop"
    /\ Top.i <= Len(Top.order)
    /\ LET call == Top.order[Top.i]
           resolvedPath == Abs(Join(Top.dir, call.source), Cwd, TRUE).path
           l == listTerraformFiles(resolvedPath)
       IN  /\ isLocalPath(call.source)
           /\ IF ~l.ok
              THEN /\ stderr' = Append(stderr, [warning |-> "cannot read",
                                                path |-> resolvedPath])
                   /\ stack' = Advance
                   /\ UNCHANGED << localModules, pending, pc >>
              ELSE IF resolvedPath \in visited
              THEN /\ stack' = Advance
                   /\ UNCHANGED << localModules, pending, pc, stderr >>
              ELSE /\ localModules' = Append(localModules,
                          ModuleDetail(call.name, call.source, resolvedPath, l.files))
                   /\ pending' = [dir |-> resolvedPath, calledFrom |-> call.name]
                   /\ pc' = "call"
                   /\ UNCHANGED << stderr, stack >>
    /\ UNCHANGED << fs, arg, visited, rootModule, remoteModules, retErr, err,
                    output, op >>

\* LoopLocal that appends the record and does not recurse.
LoopLocal_NoRecurse ==
    /\ pc = "loop"
    /\ Top.i <= Len(Top.order)
    /\ LET call == Top.order[Top.i]
           resolvedPath == Abs(Join(Top.dir, call.source), Cwd, TRUE).path
           l == listTerraformFiles(resolvedPath)
       IN  /\ isLocalPath(call.source)
           /\ IF ~l.ok
              THEN /\ stderr' = Append(stderr, [warning |-> "cannot read",
                                                path |-> resolvedPath])
                   /\ UNCHANGED localModules
              ELSE /\ localModules' = Append(localModules,
                          ModuleDetail(call.name, call.source, resolvedPath, l.files))
                   /\ UNCHANGED stderr
    /\ stack' = Advance
    /\ UNCHANGED << fs, arg, pc, pending, visited, rootModule, remoteModules, retErr,
                    err, output, op >>

\* LoopLocal that records a call although its directory cannot be listed.
LoopLocal_RecordUnlistable ==
    /\ pc = "loop"
    /\ Top.i <= Len(Top.order)
    /\ LET call == Top.order[Top.i]
           resolvedPath == Abs(Join(Top.dir, call.source), Cwd, TRUE).path
           l == listTerraformFiles(resolvedPath)
       IN  /\ isLocalPath(call.source)
           /\ IF ~l.ok
              THEN /\ stderr' = Append(stderr, [warning |-> "cannot read",
                                                path |-> resolvedPath])
                   /\ localModules' = Append(localModules,
                          ModuleDetail(call.name, call.source, resolvedPath, l.files))
                   /\ stack' = Advance
                   /\ UNCHANGED << pending, pc >>
              ELSE /\ localModules' = Append(localModules,
                          ModuleDetail(call.name, call.source, resolvedPath, l.files))
                   /\ pending' = [dir |-> resolvedPath, calledFrom |-> call.name]
                   /\ pc' = "call"
                   /\ UNCHANGED << stderr, stack >>
    /\ UNCHANGED << fs, arg, visited, rootModule, remoteModules, retErr, err,
                    output, op >>

\* One iteration of the loop for a local call, up to the recursive call.
LoopLocal ==
    /\ pc = "loop"
    /\ Top.i <= Len(Top.order)
    /\ LET call == Top.order[Top.i]
           resolvedPath == Abs(Join(Top.dir, call.source), Cwd, TRUE).path
           l == listTerraformFiles(resolvedPath)
       IN  /\ isLocalPath(call.source)
           /\ IF ~l.ok
              THEN /\ stderr' = Append(stderr, [warning |-> "cannot read",
                                                path |-> resolvedPath])
                   /\ stack' = Advance
                   /\ UNCHANGED << localModules, pending, pc >>
              ELSE /\ localModules' = Append(localModules,
                          ModuleDetail(call.name, call.source, resolvedPath, l.files))
                   /\ pending' = [dir |-> resolvedPath, calledFrom |-> call.name]
                   /\ pc' = "call"
                   /\ UNCHANGED << stderr, stack >>
    /\ UNCHANGED << fs, arg, visited, rootModule, remoteModules, retErr, err,
                    output, op >>

\* LoopRemote that labels the entry with calledFrom as it is.
LoopRemote_NoRootLabel ==
    /\ pc = "loop"
    /\ Top.i <= Len(Top.order)
    /\ LET call == Top.order[Top.i]
       IN  /\ ~isLocalPath(call.source)
           /\ remoteModules' = Append(remoteModules,
                  RemoteModule(call.name, call.source, call.version, Top.calledFrom))
    /\ stack' = Advance
    /\ UNCHANGED << fs, arg, pc, visited, rootModule, localModules, pending, retErr,
                    stderr, err, output, op >>

\* One iteration of the loop for a remote call.
LoopRemote ==
    /\ pc = "loop"
    /\ Top.i <= Len(Top.order)
    /\ LET call == Top.order[Top.i]
           caller == IF Top.calledFrom = "" THEN "(root)" ELSE Top.calledFrom
       IN  /\ ~isLocalPath(call.source)
           /\ remoteModules' = Append(remoteModules,
                  RemoteModule(call.name, call.source, call.version, caller))
    /\ stack' = Advance
    /\ UNCHANGED << fs, arg, pc, visited, rootModule, localModules, pending, retErr,
                    stderr, err, output, op >>

\* The loop is over: analyzeRecursive returns nil.
LoopEnd ==
    /\ pc = "loop"
    /\ Top.i > Len(Top.order)
    /\ stack' = Front(stack)
    /\ retErr' = FALSE
    /\ pc' = "ret"
    /\ UNCHANGED << fs, arg, visited, rootModule, localModules, remoteModules,
                    pending, stderr, err, output, op >>

\* ReturnToCaller that returns the error of the recursive call.
ReturnToCaller_Propagate ==
    /\ pc = "ret"
    /\ stack # <<>>
    /\ IF retErr
       THEN /\ stack' = Front(stack)
            /\ UNCHANGED << retErr, pc >>
       ELSE /\ stack' = Advance
            /\ retErr' = FALSE
            /\ pc' = "loop"
    /\ UNCHANGED << fs, arg, visited, rootModule, localModules, remoteModules,
                    pending, stderr, err, output, op >>

\* A recursive call returns into the loop of its caller.
ReturnToCaller ==
    /\ pc = "ret"
    /\ stack # <<>>
    /\ stderr' = IF retErr
                 THEN Append(stderr, [warning |-> "failed to analyze",
                                      path |-> Abs(Join(Top.dir, Top.order[Top.i].source),
                                                   Cwd, TRUE).path])
                 ELSE stderr
    /\ stack' = Advance
    /\ retErr' = FALSE
    /\ pc' = "loop"
    /\ UNCHANGED << fs, arg, visited, rootModule, localModules, remoteModules,
                    pending, err, output, op >>

\* The outermost call returns into Analyze, which returns.
ReturnToAnalyze ==
    /\ pc = "ret"
    /\ stack = <<>>
    /\ IF retErr
       THEN /\ err' = "load"
            /\ UNCHANGED output
       ELSE /\ output' = [RootModule |-> rootModule, LocalModules |-> localModules,
                          RemoteModules |-> remoteModules]
            /\ UNCHANGED err
    /\ retErr' = FALSE
    /\ pc' = "done"
    /\ UNCHANGED << fs, arg, visited, rootModule, localModules, remoteModules,
                    stack, pending, stderr, op >>

NextAnalyze ==
    \/ Analyze
    \/ Enter
    \/ LoopLocal
    \/ LoopRemote
    \/ LoopEnd
    \/ ReturnToCaller
    \/ ReturnToAnalyze

\* ------------------------------------------------------------- change impact
Range(s) == {s[i] : i \in 1..Len(s)}

\* The absolute path IsAffected and FilterRelatedFiles make of a changed file;
\* wdOK is the outcome of os.Getwd, whose error both ignore.
ChangedAbsPath(f, wdOK) ==
    LET cwd == IF wdOK THEN Cwd ELSE EmptyPath
        absPath == IF ~IsAbs(f) THEN Join(cwd, f) ELSE f
    IN  Abs(absPath, Cwd, wdOK).path

\* InAnyLocal that looks at the first local module only.
InAnyLocal_FirstOnly(absPath, mods) ==
    IF mods = <<>> THEN FALSE
    ELSE isInDirectory(absPath, Head(mods).ResolvedPath)

RECURSIVE InAnyLocal(_, _)
InAnyLocal(absPath, mods) ==
    IF mods = <<>> THEN FALSE
    ELSE IF isInDirectory(absPath, Head(mods).ResolvedPath) THEN TRUE
         ELSE InAnyLocal(absPath, Tail(mods))

RECURSIVE IsAffected(_, _, _)
IsAffected(changedFiles, out, wdOK) ==
    IF changedFiles = <<>> THEN FALSE
    ELSE LET absPath == ChangedAbsPath(Head(changedFiles), wdOK)
         IN  IF isInDirectory(absPath, out.RootModule.ResolvedPath) THEN TRUE
             ELSE IF InAnyLocal(absPath, out.LocalModules) THEN TRUE
                  ELSE IsAffected(Tail(changedFiles), out, wdOK)

\* AppendUnseen without the seen map.
AppendUnseen_NoSeen(result, files) == result \o files

\* The loop `if !seen[f] { seen[f] = true; result = append(result, f) }`:
\* seen holds exactly the elements of result.
RECURSIVE AppendUnseen(_, _)
AppendUnseen(result, files) ==
    IF files = <<>> THEN result
    ELSE LET f == Head(files)
         IN  AppendUnseen(IF f \in Range(result) THEN result ELSE Append(result, f),
                          Tail(files))

RECURSIVE CollectLocals(_, _)
CollectLocals(files, mods) ==
    IF mods = <<>> THEN files
    ELSE CollectLocals(AppendUnseen(files, Head(mods).Files), Tail(mods))

CollectAllFiles(out) ==
    CollectLocals(AppendUnseen(<<>>, out.RootModule.Files), out.LocalModules)

AffectedModulePaths(changedAbsPaths, out) ==
    {out.RootModule.ResolvedPath :
        cp \in {c \in changedAbsPaths : isInDirectory(c, out.RootModule.ResolvedPath)}}
    \cup
    {out.LocalModules[j].ResolvedPath :
        j \in {k \in 1..Len(out.LocalModules) :
                 \E c \in changedAbsPaths :
                    isInDirectory(c, out.LocalModules[k].ResolvedPath)}}

RECURSIVE FilterLocals(_, _, _)
FilterLocals(result, mods, affectedModulePaths) ==
    IF mods = <<>> THEN result
    ELSE FilterLocals(IF Head(mods).ResolvedPath \in affectedModulePaths
                      THEN AppendUnseen(result, Head(mods).Files)
                      ELSE result,
                      Tail(mods), affectedModulePaths)

\* FilterRelatedFiles that emits the root's files whether or not it is affected.
FilterRelatedFiles_AlwaysRoot(allFiles, changedFiles, out, wdOK) ==
    LET changedAbsPaths == {ChangedAbsPath(changedFiles[i], wdOK) :
                               i \in 1..Len(changedFiles)}
        affectedModulePaths == AffectedModulePaths(changedAbsPaths, out)
    IN  FilterLocals(AppendUnseen(<<>>, out.RootModule.Files), out.LocalModules,
                     affectedModulePaths)

FilterRelatedFiles(allFiles, changedFiles, out, wdOK) ==
    LET changedAbsPaths == {ChangedAbsPath(changedFiles[i], wdOK) :
                               i \in 1..Len(changedFiles)}
        affectedModulePaths == AffectedModulePaths(changedAbsPaths, out)
        fromRoot == IF out.RootModule.ResolvedPath \in affectedModulePaths
                    THEN AppendUnseen(<<>>, out.RootModule.Files)
                    ELSE <<>>
    IN  FilterLocals(fromRoot, out.LocalModules, affectedModulePaths)

\* os.Getwd's outcome is read only for a relative changed path.
GetwdOutcomes(changedFiles) ==
    IF \E i \in 1..Len(changedFiles) : ~IsAbs(changedFiles[i]) THEN BOOLEAN ELSE {TRUE}

\* main's --affected branch, after which the process exits.
DoIsAffected ==
    /\ pc = "done"
    /\ err = ""
    /\ \E changedFiles \in ChangedLists : \E wdOK \in GetwdOutcomes(changedFiles) :
         op' = [kind |-> "IsAffected", changed |-> changedFiles, wdOK |-> wdOK,
                result |-> IsAffected(changedFiles, output, wdOK)]
    /\ pc' = "exit"
    /\ UNCHANGED << fs, arg, visited, rootModule, localModules, remoteModules,
                    stack, pending, retErr, stderr, err, output >>

\* main's --files-only branch, after which the process exits.
DoCollectAllFiles ==
    /\ pc = "done"
    /\ err = ""
    /\ op' = [kind |-> "CollectAllFiles", changed |-> <<>>, wdOK |-> TRUE,
              result |-> CollectAllFiles(output)]
    /\ pc' = "exit"
    /\ UNCHANGED << fs, arg, visited, rootModule, localModules, remoteModules,
                    stack, pending, retErr, stderr, err, output >>

\* main's --files-only --filter-stdin branch, after which the process exits.
DoFilterRelatedFiles ==
    /\ pc = "done"
    /\ err = ""
    /\ \E changedFiles \in ChangedLists : \E wdOK \in GetwdOutcomes(changedFiles) :
         op' = [kind |-> "FilterRelatedFiles", changed |-> changedFiles, wdOK |-> wdOK,
                result |-> FilterRelatedFiles(CollectAllFiles(output), changedFiles,
                                              output, wdOK)]
    /\ pc' = "exit"
    /\ UNCHANGED << fs, arg, visited, rootModule, localModules, remoteModules,
                    stack, pending, retErr, stderr, err, output >>

Next ==
    \/ NextAnalyze
    \/ DoIsAffected
    \/ DoCollectAllFiles
    \/ DoFilterRelatedFiles

Spec == Init /\ [][Next]_vars

\* ------------------------------------------------- isInDirectory on its own
\* A path as the string the program holds: the sequence of its characters.
MaxDepth == 3        \* elements of a path handed to isInDirectory

Sep == "/"

\* The element names, as characters; "cx" has "c" as a string prefix.
ElemNames == {<<"b">>, <<"c">>, <<"c", "x">>}

\* The element a run of characters between separators spells.
ElemString(chars) ==
    CASE chars = <<>> -> ""
      [] chars = <<"b">> -> "b"
      [] chars = <<"c">> -> "c"
      [] chars = <<"c", "x">> -> "cx"

\* The absolute, clean path strings of exactly n elements (n >= 1).
RECURSIVE PathStringsOfDepth(_)
PathStringsOfDepth(n) ==
    IF n = 0 THEN {<<>>}
    ELSE {p \o <<Sep>> \o e : p \in PathStringsOfDepth(n - 1), e \in ElemNames}

PathStrings == {<<Sep>>} \cup UNION {PathStringsOfDepth(n) : n \in 1..MaxDepth}

\* The elements filepath.Rel and filepath.Clean see in a string: the runs of
\* characters between separators.
RECURSIVE SplitElems(_, _, _)
SplitElems(chars, cur, acc) ==
    IF chars = <<>> THEN Append(acc, ElemString(cur))
    ELSE IF Head(chars) = Sep
         THEN SplitElems(Tail(chars), <<>>, Append(acc, ElemString(cur)))
         ELSE SplitElems(Tail(chars), Append(cur, Head(chars)), acc)

PathOfString(str) ==
    IF str # <<>> /\ Head(str) = Sep
    THEN AbsP(SplitElems(Tail(str), <<>>, <<>>))
    ELSE RelP(SplitElems(str, <<>>, <<>>))

\* TestIsInDirectory: the arguments are drawn, then isInDirectory is applied.
PathInit ==
    /\ fs = [d \in Dirs |-> [calls |-> <<>>, parseOK |-> TRUE]]
    /\ arg = EmptyPath
    /\ pc = "test"
    /\ visited = {}
    /\ rootModule = ModuleDetail("", EmptyPath, EmptyPath, <<>>)
    /\ localModules = <<>>
    /\ remoteModules = <<>>
    /\ stack = <<>>
    /\ pending = NoCall
    /\ retErr = FALSE
    /\ stderr = <<>>
    /\ err = ""
    /\ output = NoOutput
    /\ \E filePath \in PathStrings : \E dirPath \in PathStrings :
         op = [kind |-> "args", filePath |-> filePath, dirPath |-> dirPath]

CallIsInDirectory ==
    /\ pc = "test"
    /\ op.kind = "args"
    /\ op' = [kind |-> "isInDirectory", filePath |-> op.filePath, dirPath |-> op.dirPath,
              result |-> isInDirectory(PathOfString(op.filePath),
                                       PathOfString(op.dirPath))]
    /\ pc' = "exit"
    /\ UNCHANGED << fs, arg, visited, rootModule, localModules, remoteModules,
                    stack, pending, retErr, stderr, err, output >>

PathSpec == PathInit /\ [][CallIsInDirectory]_vars

\* ================================================================== claims
Done == pc \in {"done", "exit"}
Success == Done /\ err = ""

\* The root directory of the run, when the argument can be made absolute.
RootPath == Abs(arg, Cwd, TRUE).path

IsPrefixSegs(a, b) == Len(a) <= Len(b) /\ SubSeq(b, 1, Len(a)) = a

\* p is dir itself or lies inside it at any depth (both absolute and clean).
EqualOrInside(p, dir) == p.abs /\ dir.abs /\ IsPrefixSegs(dir.segs, p.segs)

\* The directory a call declared in directory d resolves to.
Resolved(d, call) == Clean(Path(d.abs, d.segs \o call.source.segs))

LocalCalls(d) == {k \in 1..Len(fs[d].calls) : isLocalPath(fs[d].calls[k].source)}
RemoteCalls(d) == {k \in 1..Len(fs[d].calls) : ~isLocalPath(fs[d].calls[k].source)}
LocalTargets(d) == {Resolved(d, fs[d].calls[k]) : k \in LocalCalls(d)}

\* The directories whose configuration was parsed without diagnostics.
Analyzed == {d \in visited \cap Dirs : fs[d].parseOK}

RecordsAt(mods, p) == {i \in 1..Len(mods) : mods[i].ResolvedPath = p}

\* The local call declarations, in directories of D, that resolve to p.
CallsTo(D, p) ==
    {dk \in UNION {{<<d, k>> : k \in LocalCalls(d)} : d \in D} :
        Resolved(dk[1], fs[dk[1]].calls[dk[2]]) = p}

\* Every call of every analyzed directory was processed: a listable local call
\* has its record, a remote call has its entry.
AllCallsProcessed ==
    \A d \in Analyzed :
        /\ \A k \in LocalCalls(d) :
              LET c == fs[d].calls[k]
              IN  ReadDirOK(Resolved(d, c)) =>
                    \E i \in 1..Len(localModules) :
                        /\ localModules[i].Name = c.name
                        /\ localModules[i].Source = c.source
                        /\ localModules[i].ResolvedPath = Resolved(d, c)
        /\ \A k \in RemoteCalls(d) :
              LET c == fs[d].calls[k]
              IN  \E i \in 1..Len(remoteModules) :
                        /\ remoteModules[i].Name = c.name
                        /\ remoteModules[i].Source = c.source

\* ---------------------------------------------------------------------- C1
\* C1 (as stated): no two records in localModules have the same resolvedPath.
C1_NoTwoRecordsSamePath ==
    Success =>
        \A i, j \in 1..Len(output.LocalModules) :
            i # j => output.LocalModules[i].ResolvedPath #
                     output.LocalModules[j].ResolvedPath

\* C1 (amended): records are per call declaration, not per directory. At any
\* moment the records with resolvedPath p are at most as many as the local call
\* declarations, in analyzed directories, that resolve to p; once Analyze has
\* succeeded they are exactly as many when p can be listed, and none otherwise.
\* So a directory that only one analyzed call declaration resolves to has one
\* record, and two records share a resolvedPath only for two call declarations.
C1_RecordsPerCallDeclaration ==
    \A p \in Dirs \cup {DirX} :
        /\ Cardinality(RecordsAt(localModules, p)) <= Cardinality(CallsTo(Analyzed, p))
        /\ Success =>
             Cardinality(RecordsAt(output.LocalModules, p)) =
                (IF ReadDirOK(p) THEN Cardinality(CallsTo(Analyzed, p)) ELSE 0)

\* A diamond: two records of one successful run have the same resolvedPath.
C1_Witness ==
    /\ Success
    /\ \E i, j \in 1..Len(output.LocalModules) :
         /\ i # j
         /\ output.LocalModules[i].ResolvedPath = output.LocalModules[j].ResolvedPath
         /\ output.LocalModules[i].Name # output.LocalModules[j].Name

\* ---------------------------------------------------------------------- C2
\* Directories A and B call each other and make no other local call, both
\* parse, and Analyze is started at A.
CycleAt(A, B) ==
    /\ A # B
    /\ IsAbs(arg) /\ RootPath = A
    /\ fs[A].parseOK /\ fs[B].parseOK
    /\ Cardinality(LocalCalls(A)) = 1 /\ LocalTargets(A) = {B}
    /\ Cardinality(LocalCalls(B)) = 1 /\ LocalTargets(B) = {A}

IsCycle == \E A, B \in Dirs : CycleAt(A, B)

CycleResult ==
    /\ pc = "done"
    /\ err = ""
    /\ output # NoOutput
    /\ Len(output.LocalModules) = 2
    /\ \E A, B \in Dirs :
         /\ CycleAt(A, B)
         /\ output.LocalModules[1].ResolvedPath = B
         /\ output.LocalModules[2].ResolvedPath = A

\* What is left of the run: what the unvisited directories may still cost, the
\* calls the active frames have not finished, and the step in progress.
DirCost(d) == 3 * Len(fs[d].calls) + 2
FrameCost(k) == 3 * (Len(stack[k].order) - stack[k].i + 1)
StepCost == CASE pc = "start" -> 3
              [] pc = "loop" -> 3
              [] pc = "call" -> 2
              [] pc = "ret" -> 1
              [] OTHER -> 0

RECURSIVE DirsCost(_)
DirsCost(S) ==
    IF S = {} THEN 0
    ELSE LET d == CHOOSE x \in S : TRUE
         IN  DirCost(d) + DirsCost(S \ {d})

RECURSIVE FramesCost(_)
FramesCost(k) == IF k = 0 THEN 0 ELSE FrameCost(k) + FramesCost(k - 1)

Remaining == DirsCost(Dirs \ visited) + FramesCost(Len(stack)) + StepCost

\* C2: started at A of a circular reference A -> B -> A, Analyze terminates,
\* returns no error and yields exactly 2 local module records (A's declaration
\* of B, then B's declaration of A). Termination: until Analyze has returned a
\* step of it is always possible, every step lowers the natural number
\* Remaining, and the state in which it has returned is CycleResult.
C2_CycleTerminates ==
    /\ [](IsCycle => /\ Remaining >= 0
                     /\ (~Done => ENABLED NextAnalyze)
                     /\ (Done => pc = "exit" \/ CycleResult))
    /\ [][IsCycle /\ NextAnalyze => Remaining' < Remaining]_vars

C2_Witness == IsCycle /\ CycleResult

\* ---------------------------------------------------------------------- C3
\* The directories reachable from the directories of S through local calls.
RECURSIVE CallClosure(_)
CallClosure(S) ==
    LET T == S \cup UNION {LocalTargets(d) : d \in S \cap Dirs}
    IN  IF T = S THEN S ELSE CallClosure(T)

\* The directories reachable from the root through a chain of one or more local calls.
Reachable == IF RootPath \in Dirs THEN CallClosure(LocalTargets(RootPath)) ELSE {}

AllListableAndParse == \A d \in {RootPath} \cup Reachable : d \in Dirs /\ fs[d].parseOK

\* Root R's only local call is to M, M's only local call is to N, N makes none.
ChainAt(R, M, N) ==
    /\ R # M /\ M # N /\ R # N
    /\ RootPath = R
    /\ Cardinality(LocalCalls(R)) = 1 /\ LocalTargets(R) = {M}
    /\ Cardinality(LocalCalls(M)) = 1 /\ LocalTargets(M) = {N}
    /\ LocalCalls(N) = {}

\* C3: when every directory involved is listable and parses, every directory
\* reachable from the root through local calls has a record in localModules;
\* for a chain R -> M -> N there are exactly 2 records, one for M and one for N,
\* with resolvedPaths different from R's.
C3_TransitiveCompleteness ==
    (Success /\ AllListableAndParse) =>
        /\ \A d \in Reachable : RecordsAt(output.LocalModules, d) # {}
        /\ \A R, M, N \in Dirs :
             ChainAt(R, M, N) =>
                /\ Len(output.LocalModules) = 2
                /\ {output.LocalModules[i].ResolvedPath : i \in 1..2} = {M, N}
                /\ output.RootModule.ResolvedPath = R

C3_Witness ==
    /\ Success
    /\ AllListableAndParse
    /\ \E R, M, N \in Dirs : ChainAt(R, M, N)
    /\ Len(output.LocalModules) = 2

\* ---------------------------------------------------------------------- C4
\* The traversal of the design: depth first, the calls of each directory taken
\* in declaration order. acc holds the visited set and the two result lists.
RECURSIVE DeclVisit(_, _, _)
RECURSIVE DeclLoop(_, _, _, _)
DeclVisit(acc, d, label) ==
    IF d \in acc.visited THEN acc
    ELSE LET marked == [acc EXCEPT !.visited = @ \cup {d}]
         IN  IF ~fs[d].parseOK THEN marked
             ELSE DeclLoop(marked, d, label, fs[d].calls)

DeclLoop(acc, d, label, calls) ==
    IF calls = <<>> THEN acc
    ELSE LET c == Head(calls)
             target == Resolved(d, c)
             l == listTerraformFiles(target)
         IN  IF isLocalPath(c.source)
             THEN IF ~l.ok THEN DeclLoop(acc, d, label, Tail(calls))
                  ELSE DeclLoop(
                         DeclVisit([acc EXCEPT !.local = Append(@,
                                       ModuleDetail(c.name, c.source, target, l.files))],
                                   target, c.name),
                         d, label, Tail(calls))
             ELSE DeclLoop([acc EXCEPT !.remote = Append(@,
                               RemoteModule(c.name, c.source, c.version, label))],
                           d, label, Tail(calls))

DeclarationOrderResult ==
    DeclVisit([visited |-> {}, local |-> <<>>, remote |-> <<>>], RootPath, "(root)")

\* C4 (as stated): localModules (and remoteModules) are in the first-visitation
\* order of the depth-first traversal that takes each directory's calls in
\* declaration order, so a fixed directory tree gives the same order on every run.
C4_DeclarationOrder ==
    Success =>
        /\ output.LocalModules = DeclarationOrderResult.local
        /\ output.RemoteModules = DeclarationOrderResult.remote

\* ---------------------------------------------------------------------- C5
CannotRead(p) == [warning |-> "cannot read", path |-> p]

\* The local calls, in analyzed directories, whose directory cannot be listed.
UnlistableCalls ==
    {dk \in UNION {{<<d, k>> : k \in LocalCalls(d)} : d \in Analyzed} :
        ~ReadDirOK(Resolved(dk[1], fs[dk[1]].calls[dk[2]]))}

\* C5: a local call whose resolved directory cannot be listed is skipped: it
\* gets no record, its directory is neither visited nor parsed, the other calls
\* of the same directory are still processed, and Analyze does not fail for it.
C5_UnlistableCallSkipped ==
    /\ \A i \in 1..Len(localModules) : ReadDirOK(localModules[i].ResolvedPath)
    /\ \A d \in visited : ReadDirOK(d)
    /\ \A w \in Range(stderr) :
          w.warning = "cannot read" => /\ ~ReadDirOK(w.path)
                                       /\ RecordsAt(localModules, w.path) = {}
                                       /\ w.path \notin visited
    /\ (Done /\ UnlistableCalls # {}) =>
          /\ err = ""
          /\ AllCallsProcessed
          /\ \A dk \in UnlistableCalls :
                CannotRead(Resolved(dk[1], fs[dk[1]].calls[dk[2]])) \in Range(stderr)

\* The loop has skipped an unlistable call and has gone on to append the record
\* of the next call of the same directory.
C5_Witness ==
    /\ pc = "call"
    /\ stack # <<>>
    /\ Top.i >= 2
    /\ isLocalPath(Top.order[Top.i - 1].source)
    /\ ~ReadDirOK(Resolved(Top.dir, Top.order[Top.i - 1]))
    /\ localModules[Len(localModules)].Name = Top.order[Top.i].name
    /\ stderr # <<>>

\* ---------------------------------------------------------------------- C6
\* The non-root directories whose parse reported diagnostics during the run.
FailedBelowRoot == {d \in (visited \cap Dirs) \ {RootPath} : ~fs[d].parseOK}

\* C6: Analyze fails, with an error and no result, when the root path cannot be
\* made absolute or the root's parse reports diagnostics. A parse failure in a
\* non-root directory is a warning at its caller: Analyze still succeeds and
\* the caller goes on with its remaining calls.
C6_OnlyRootFailureIsFatal ==
    Done =>
        /\ (err # "") <=> (output = NoOutput)
        /\ err = "abs" => (~IsAbs(arg) /\ visited = {})
        /\ (RootPath \in visited /\ ~fs[RootPath].parseOK) => err = "load"
        /\ err = "load" => (RootPath \in visited /\ ~fs[RootPath].parseOK)
        /\ FailedBelowRoot # {} =>
              /\ err = ""
              /\ AllCallsProcessed
              /\ \A d \in FailedBelowRoot :
                    [warning |-> "failed to analyze", path |-> d] \in Range(stderr)

\* A successful run in which a non-root directory failed to parse and its caller
\* then processed another call (the record after the failed directory's).
C6_Witness ==
    /\ Success
    /\ \E i \in 1..Len(output.LocalModules) :
         /\ output.LocalModules[i].ResolvedPath \in FailedBelowRoot
         /\ i < Len(output.LocalModules)

\* ---------------------------------------------------------------------- C7
\* The label of the directory a remote call is declared in: "(root)" for the
\* root, otherwise the name of the call through which the directory was entered,
\* which is the first record with that resolvedPath.
LabelOf(d) ==
    IF d = RootPath THEN "(root)"
    ELSE LET first == CHOOSE i \in RecordsAt(localModules, d) :
                          \A j \in RecordsAt(localModules, d) : i <= j
         IN  localModules[first].Name

ExpectedRemote(d, k) ==
    RemoteModule(fs[d].calls[k].name, fs[d].calls[k].source, fs[d].calls[k].version,
                 LabelOf(d))

RemoteDeclarations == UNION {{<<d, k>> : k \in RemoteCalls(d)} : d \in Analyzed}

\* C7: every remote call declared in an analyzed directory gives exactly one
\* entry of remoteModules with the call's name, source and version and with
\* called_from "(root)" for the root, the calling module's name otherwise;
\* entries are not deduplicated by source, and no remote call is recursed into.
C7_RemoteEntries ==
    Success =>
        /\ Len(output.RemoteModules) = Cardinality(RemoteDeclarations)
        /\ \A e \in Range(output.RemoteModules) \cup
                    {ExpectedRemote(dk[1], dk[2]) : dk \in RemoteDeclarations} :
              Cardinality({i \in 1..Len(output.RemoteModules) :
                              output.RemoteModules[i] = e}) =
              Cardinality({dk \in RemoteDeclarations : ExpectedRemote(dk[1], dk[2]) = e})
        /\ visited \subseteq {RootPath} \cup
                             {output.LocalModules[i].ResolvedPath :
                                 i \in 1..Len(output.LocalModules)}

\* Two entries with the same source, one declared by the root, one by a module.
C7_Witness ==
    /\ Success
    /\ \E i, j \in 1..Len(output.RemoteModules) :
         /\ output.RemoteModules[i].Source = output.RemoteModules[j].Source
         /\ output.RemoteModules[i].CalledFrom = "(root)"
         /\ output.RemoteModules[j].CalledFrom # "(root)"

\* ---------------------------------------------------------------------- C8
\* The changed paths of the last operation that could be made absolute.
ChangedAbs ==
    {a.path : a \in {b \in {Abs(op.changed[i], Cwd, op.wdOK) : i \in 1..Len(op.changed)} :
                        b.ok}}

ModulePaths ==
    {output.RootModule.ResolvedPath} \cup
    {output.LocalModules[i].ResolvedPath : i \in 1..Len(output.LocalModules)}

\* C8: IsAffected is true exactly when some changed path, made absolute, is
\* equal to or inside the root's resolvedPath or a local module's; so it is
\* false for no changed paths and true for a path inside a local module.
C8_IsAffectedIff ==
    op.kind = "IsAffected" =>
        /\ op.result <=> (\E c \in ChangedAbs : \E m \in ModulePaths : EqualOrInside(c, m))
        /\ op.changed = <<>> => ~op.result
        /\ \A i \in 1..Len(output.LocalModules) :
              (\E c \in ChangedAbs : EqualOrInside(c, output.LocalModules[i].ResolvedPath))
                 => op.result

\* Affected through a local module alone: no changed path is under the root.
C8_Witness ==
    /\ op.kind = "IsAffected"
    /\ op.result
    /\ \A c \in ChangedAbs : ~EqualOrInside(c, output.RootModule.ResolvedPath)
    /\ Len(output.LocalModules) >= 2
    /\ \A c \in ChangedAbs : ~EqualOrInside(c, output.LocalModules[1].ResolvedPath)

\* ---------------------------------------------------------------------- C9
\* Every changed path of the last operation lies under module record M.
ChangeUnder(M) ==
    /\ op.changed # <<>>
    /\ \A i \in 1..Len(op.changed) :
          LET a == Abs(op.changed[i], Cwd, op.wdOK)
          IN  a.ok /\ EqualOrInside(a.path, M.ResolvedPath)

AllModules == <<output.RootModule>> \o output.LocalModules

\* The module records whose directory contains a changed path.
Containing == {k \in 1..Len(AllModules) :
                 \E c \in ChangedAbs : EqualOrInside(c, AllModules[k].ResolvedPath)}

\* C9 (as stated): a change under local module M alone returns exactly M's
\* files: no file of the root and no file of another local module.
C9_ExactlyFilesOfM ==
    op.kind = "FilterRelatedFiles" =>
        \A i \in 1..Len(output.LocalModules) :
            ChangeUnder(output.LocalModules[i]) =>
                Range(op.result) = Range(output.LocalModules[i].Files)

\* C9 (amended): a change under local module M returns M's files together with
\* the files of every other module record, root included, whose resolvedPath
\* also contains a changed path (a directory that M is nested in, or a module
\* nested in M above the change), and no other file. It returns exactly M's
\* files when M's resolvedPath is the only one that contains a changed path.
C9_FilesOfContainingModules ==
    op.kind = "FilterRelatedFiles" =>
        \A i \in 1..Len(output.LocalModules) :
            LET M == output.LocalModules[i]
            IN  ChangeUnder(M) =>
                  /\ Range(op.result) = UNION {Range(AllModules[k].Files) : k \in Containing}
                  /\ Range(M.Files) \subseteq Range(op.result)
                  /\ (\A k \in Containing : AllModules[k].ResolvedPath = M.ResolvedPath)
                        => op.result = M.Files

\* A change under a module that no other module's directory contains: the
\* result is M's files while the root and a sibling module have files of
\* their own.
C9_Witness ==
    /\ op.kind = "FilterRelatedFiles"
    /\ \E i, j \in 1..Len(output.LocalModules) :
         /\ ChangeUnder(output.LocalModules[i])
         /\ op.result = output.LocalModules[i].Files
         /\ op.result # <<>>
         /\ output.RootModule.Files # <<>>
         /\ Range(output.RootModule.Files) \cap Range(op.result) = {}
         /\ output.LocalModules[j].Files # <<>>
         /\ Range(output.LocalModules[j].Files) \cap Range(op.result) = {}

\* --------------------------------------------------------------------- C10
RECURSIVE FilesInOrder(_)
FilesInOrder(mods) ==
    IF mods = <<>> THEN <<>> ELSE Head(mods).Files \o FilesInOrder(Tail(mods))

\* Root files first, then each local module's files in localModules order.
AllFilesRead == FilesInOrder(AllModules)

FirstAt(s, x) == CHOOSE i \in 1..Len(s) : s[i] = x /\ \A j \in 1..(i - 1) : s[j] # x

\* C10: CollectAllFiles returns, without duplicates, exactly the paths in the
\* root's files or a local module's files, ordered by first occurrence when the
\* root's files are read first and then each local module's in localModules order.
C10_CollectAllFiles ==
    op.kind = "CollectAllFiles" =>
        /\ \A i, j \in 1..Len(op.result) : i # j => op.result[i] # op.result[j]
        /\ Range(op.result) = Range(AllFilesRead)
        /\ \A i, j \in 1..Len(op.result) :
              i < j => FirstAt(AllFilesRead, op.result[i]) < FirstAt(AllFilesRead, op.result[j])

\* Some path is in two module records and the result has it once.
C10_Witness ==
    /\ op.kind = "CollectAllFiles"
    /\ Len(op.result) < Len(AllFilesRead)
    /\ Len(op.result) >= 2

\* --------------------------------------------------------------------- C11
IsStringPrefix(a, b) == Len(a) <= Len(b) /\ SubSeq(b, 1, Len(a)) = a

\* filePath is dirPath itself or a descendant of it at any depth, read off the
\* two strings: below dirPath is what starts with dirPath and a separator.
SelfOrDescendant(filePath, dirPath) ==
    \/ filePath = dirPath
    \/ IsStringPrefix(IF dirPath = <<Sep>> THEN dirPath ELSE dirPath \o <<Sep>>, filePath)

Str2(a, b) == <<Sep>> \o a \o <<Sep>> \o b
Str3(a, b, c) == Str2(a, b) \o <<Sep>> \o c

IsInDirectoryOf(filePath, dirPath) ==
    op.kind = "isInDirectory" /\ op.filePath = filePath /\ op.dirPath = dirPath

\* C11: for absolute paths isInDirectory(filePath, dirPath) is true exactly when
\* filePath is dirPath itself or a descendant of it at any depth: true for the
\* directory itself and for a nested descendant, false for a file in the parent
\* directory, for a sibling (also one whose name has dirPath's last element as
\* a string prefix) and for an unrelated path.
C11_IsInDirectoryIff ==
    op.kind = "isInDirectory" =>
        /\ op.result <=> SelfOrDescendant(op.filePath, op.dirPath)
        /\ IsInDirectoryOf(Str2(<<"b">>, <<"c">>), Str2(<<"b">>, <<"c">>)) => op.result
        /\ IsInDirectoryOf(Str3(<<"b">>, <<"c">>, <<"b">>), Str2(<<"b">>, <<"c">>))
              => op.result
        /\ IsInDirectoryOf(<<Sep, "b">>, Str2(<<"b">>, <<"c">>)) => ~op.result
        /\ IsInDirectoryOf(Str2(<<"b">>, <<"b">>), Str2(<<"b">>, <<"c">>)) => ~op.result
        /\ IsInDirectoryOf(Str2(<<"b">>, <<"c", "x">>), Str2(<<"b">>, <<"c">>))
              => ~op.result
        /\ IsInDirectoryOf(Str3(<<"b">>, <<"c", "x">>, <<"b">>), Str2(<<"b">>, <<"c">>))
              => ~op.result
        /\ IsInDirectoryOf(Str2(<<"c">>, <<"b">>), Str2(<<"b">>, <<"c">>)) => ~op.result

\* /b/cx/b is not in /b/c although "/b/c" is a string prefix of it.
C11_Witness ==
    /\ IsInDirectoryOf(Str3(<<"b">>, <<"c", "x">>, <<"b">>), Str2(<<"b">>, <<"c">>))
    /\ ~op.result

\* --------------------------------------------------------------------- C12
\* The directory of the traversal step being entered.
EnteredDir == Abs(pending.dir, Cwd, TRUE).path

\* The step shows the outcome of a parse: a new frame whose loop runs over the
\* parsed calls, or the parse's error.
ParseOutcome == Len(stack') > Len(stack) \/ retErr'

\* C12: within one Analyze call every directory is analyzed (marked visited and
\* handed to the configuration parser) at most once, however many call paths
\* reach it: the visited set only grows, a directory enters it only in the
\* traversal step on that directory, a parse happens only in the step that
\* marks its directory, and no two active frames are of one directory. A
\* traversal step on an already-visited directory returns at once, without a
\* parse and without appending to localModules or remoteModules.
C12_AnalyzedAtMostOnce ==
    /\ [][/\ visited \subseteq visited'
          /\ visited' # visited => /\ pc = "call"
                                   /\ EnteredDir \notin visited
                                   /\ visited' = visited \cup {EnteredDir}
          /\ (pc = "call" /\ ParseOutcome) => /\ EnteredDir \notin visited
                                              /\ EnteredDir \in visited'
          /\ (pc = "call" /\ EnteredDir \in visited) =>
                /\ pc' = "ret"
                /\ ~retErr'
                /\ UNCHANGED << visited, stack, localModules, remoteModules, stderr >>
         ]_vars
    /\ [](/\ \A k \in 1..Len(stack) : stack[k].dir \in visited
          /\ \A j, k \in 1..Len(stack) : j # k => stack[j].dir # stack[k].dir)

\* A traversal step on an already-visited directory has just returned: the call
\* that was entered resolves to the directory of a frame that is still active.
C12_Witness ==
    /\ pc = "ret"
    /\ stack # <<>>
    /\ ~retErr
    /\ \E k \in 1..Len(stack) : stack[k].dir = Resolved(Top.dir, Top.order[Top.i])

====
